---- MODULE Spec2Model ----
(***************************************************************************)
(* Model of the notice publish pipeline of py_tools:                       *)
(*   app/notice/gen_notice_json.py   (in-process uploader and notifier)    *)
(*   notice/gen_notice_json.py       (spawned uploader and notifier)       *)
(*   infra/oss/upload_oss.py, oss/upload_oss.py                            *)
(*   infra/notify_robot/notify_markdown.py                                 *)
(* Python strings that the code inspects character by character are        *)
(* sequences of one-character strings; paths and flags that the code only  *)
(* passes along are plain strings.                                         *)
(***************************************************************************)
EXTENDS Integers, Sequences, FiniteSets, TLC

\* ------------------------------------------------------------------------
\* Characters and string helpers
\* ------------------------------------------------------------------------
CR == "\r"
LF == "\n"
BSL == "\\"
\* the backtick character (a string literal cannot hold a backtick)
BTK == "BACKTICK"
SP == " "
SL == "/"

\* all strings over alphabet A of length at most n
StringsUpTo(A, n) == UNION {[1..k -> A] : k \in 0..n}

\* str.startswith
StartsWith(s, p) == Len(s) >= Len(p) /\ SubSeq(s, 1, Len(p)) = p

\* substring test (p in s)
Contains(s, p) == \E i \in 1..(Len(s) - Len(p) + 1) : SubSeq(s, i, i + Len(p) - 1) = p

\* str.replace(old, new): non-overlapping occurrences, scanned left to right
RECURSIVE Replace(_, _, _)
Replace(s, old, new) ==
  IF Len(s) < Len(old) THEN s
  ELSE IF SubSeq(s, 1, Len(old)) = old
       THEN new \o Replace(SubSeq(s, Len(old) + 1, Len(s)), old, new)
       ELSE <<Head(s)>> \o Replace(Tail(s), old, new)

\* str.lstrip(chars) / str.rstrip(chars) / str.strip(chars)
RECURSIVE LStrip(_, _)
LStrip(s, chars) ==
  IF s # <<>> /\ Head(s) \in chars THEN LStrip(Tail(s), chars) ELSE s

RECURSIVE RStrip(_, _)
RStrip(s, chars) ==
  IF s # <<>> /\ s[Len(s)] \in chars THEN RStrip(SubSeq(s, 1, Len(s) - 1), chars) ELSE s

Strip(s, chars) == RStrip(LStrip(s, chars), chars)

\* the characters str.strip() removes when called without argument
Whitespace == {SP, LF, CR, "\t"}

\* sep.join(parts)
RECURSIVE Join(_, _)
Join(parts, sep) ==
  IF parts = <<>> THEN <<>>
  ELSE IF Len(parts) = 1 THEN parts[1]
  ELSE parts[1] \o sep \o Join(Tail(parts), sep)

\* ------------------------------------------------------------------------
\* Content normalization (app/notice/gen_notice_json.py)
\* ------------------------------------------------------------------------
\* the same chain without its last replacement
normalize_content_text_NoLastStep(content) ==
  LET s1 == Replace(content, <<CR, LF>>, <<LF>>)
      s2 == Replace(s1, <<CR>>, <<LF>>)
      s3 == Replace(s2, <<BTK, "r", BTK, "n">>, <<LF>>)
      s4 == Replace(s3, <<BTK, "n">>, <<LF>>)
      s5 == Replace(s4, <<BTK, "r">>, <<LF>>)
      s6 == Replace(s5, <<BSL, "r", BSL, "n">>, <<LF>>)
      s7 == Replace(s6, <<BSL, "n">>, <<LF>>)
  IN  s7

normalize_content_text(content) ==
  LET s1 == Replace(content, <<CR, LF>>, <<LF>>)
      s2 == Replace(s1, <<CR>>, <<LF>>)
      s3 == Replace(s2, <<BTK, "r", BTK, "n">>, <<LF>>)
      s4 == Replace(s3, <<BTK, "n">>, <<LF>>)
      s5 == Replace(s4, <<BTK, "r">>, <<LF>>)
      s6 == Replace(s5, <<BSL, "r", BSL, "n">>, <<LF>>)
      s7 == Replace(s6, <<BSL, "n">>, <<LF>>)
      s8 == Replace(s7, <<BSL, "r">>, <<LF>>)
  IN  s8

\* ------------------------------------------------------------------------
\* Upload executor (infra/oss/upload_oss.py and the older oss/upload_oss.py)
\* ------------------------------------------------------------------------
PROD_OSS_HOST ==
  <<"o", "s", "s", ":", "/", "/", "m", "e", "o", "w", "g", "a", "m", "e", "s",
    "-", "r", "e", "s", "o", "u", "r", "c", "e", "-", "p", "r", "o", "d", "/",
    "c", "a", "t", "t", "i", "e", "/">>

TEST_OSS_HOST ==
  <<"o", "s", "s", ":", "/", "/", "m", "e", "o", "w", "g", "a", "m", "e", "s",
    "-", "r", "e", "s", "o", "u", "r", "c", "e", "-", "t", "e", "s", "t", "/",
    "c", "a", "t", "t", "i", "e", "/">>

\* the literal "oss://" tested by normalize_remote_path
OssScheme == <<"o", "s", "s", ":", "/", "/">>

\* candidate locations, relative to the repository root, in search order
OssutilCandidates ==
  <<"infra/ossutil/ossutil.exe",
    "jekins_tools/publish/ossutil/ossutil.exe",
    "../jekins_tools/publish/ossutil/ossutil.exe">>

ConfigCandidates ==
  <<"infra/ossutil/meowgames.ossutilconfig",
    "jekins_tools/publish/ossutil/meowgames.ossutilconfig",
    "../jekins_tools/publish/ossutil/meowgames.ossutilconfig">>

\* next((c for c in candidates if c.exists()), None), with a fallback value;
\* fs is the set of paths that exist
RECURSIVE FirstExisting(_, _, _)
FirstExisting(candidates, fs, fallback) ==
  IF candidates = <<>> THEN fallback
  ELSE IF Head(candidates) \in fs THEN Head(candidates)
  ELSE FirstExisting(Tail(candidates), fs, fallback)

default_ossutil_path(fs) == FirstExisting(OssutilCandidates, fs, "ossutil")

\* returns the first candidate without looking for the others
default_config_path_FirstOnly(fs) == ConfigCandidates[1]

default_config_path(fs) == FirstExisting(ConfigCandidates, fs, ConfigCandidates[1])

\* oss/upload_oss.py: a single candidate each, the config one returned
\* whether or not it exists
legacy_default_ossutil_path(fs) ==
  IF OssutilCandidates[2] \in fs THEN OssutilCandidates[2] ELSE "ossutil"

legacy_default_config_path(fs) == ConfigCandidates[2]

choose_oss_host(stage) ==
  IF stage = "2" THEN PROD_OSS_HOST ELSE TEST_OSS_HOST

\* tests the prefix of the path as given and converts nothing
normalize_remote_path_NoConvert(path) ==
  IF StartsWith(path, OssScheme)
  THEN [raised |-> "", value |-> path]
  ELSE [raised |-> "ValueError", value |-> <<>>]

\* raised = "ValueError" stands for the raise; value is the returned string
normalize_remote_path(path) ==
  LET normalized == Replace(path, <<BSL>>, <<SL>>)
  IN  IF ~StartsWith(normalized, OssScheme)
      THEN [raised |-> "ValueError", value |-> <<>>]
      ELSE [raised |-> "", value |-> normalized]

\* the target of upload_oss, explicit or derived (also build_target of
\* oss/upload_oss.py, which has the same body)
build_target(target, stage, channel, remote_subdir) ==
  IF target # <<>>
  THEN normalize_remote_path(target)
  ELSE LET host == choose_oss_host(stage)
           channel_name == Strip(channel, {SL})
           remote_name == Strip(remote_subdir, {SL})
           parts == <<RStrip(host, {SL})>>
                      \o (IF channel_name # <<>> THEN <<channel_name>> ELSE <<>>)
                      \o (IF remote_name # <<>> THEN <<remote_name>> ELSE <<>>)
       IN  normalize_remote_path(Join(parts, <<SL>>) \o <<SL>>)

\* appends -u before -f
build_command_FlagsSwapped(is_dir, source, target, ossutil, config, force, update) ==
  LET action == IF is_dir THEN "sync" ELSE "cp"
  IN  <<ossutil, action, source, target>>
        \o (IF config # "" THEN <<"-c", config>> ELSE <<>>)
        \o (IF update THEN <<"-u">> ELSE <<>>)
        \o (IF force THEN <<"-f">> ELSE <<>>)

\* is_dir is the answer of source.is_dir()
build_command(is_dir, source, target, ossutil, config, force, update) ==
  LET action == IF is_dir THEN "sync" ELSE "cp"
  IN  <<ossutil, action, source, target>>
        \o (IF config # "" THEN <<"-c", config>> ELSE <<>>)
        \o (IF force THEN <<"-f">> ELSE <<>>)
        \o (IF update THEN <<"-u">> ELSE <<>>)

\* what one call of the uploader leaves behind: raised names an uncaught
\* exception ("" for none), ret the returned status, built whether the
\* command was built, spawned whether subprocess.run was called
UploadResult(raised, ret, target, built, command, config, ossutil, spawned) ==
  [raised |-> raised, ret |-> ret, target |-> target, built |-> built,
   command |-> command, config |-> config, ossutil |-> ossutil,
   spawned |-> spawned]

NoUpload == UploadResult("", 0, <<>>, FALSE, <<>>, "", "", FALSE)

\* returns 1 for every non-zero exit status
run_uploader_AlwaysOne(run) ==
  IF run.kind = "exit" THEN (IF run.code # 0 THEN 1 ELSE 0) ELSE 1

\* subprocess.run(command) and the handling of its outcome; run is the
\* outcome the operating system produces: the exit status of the started
\* process, or the exception of a failed start
run_uploader(run) ==
  IF run.kind = "exit"
  THEN (IF run.code # 0 THEN run.code ELSE 0)
  ELSE 1

\* the same body without the dry-run return: the command is always run
upload_body_DryRunIgnored(a, w, def_ossutil, def_config) ==
  IF ~w.source_exists
  THEN UploadResult("", 1, <<>>, FALSE, <<>>, "", "", FALSE)
  ELSE
    LET t == build_target(a.target, a.stage, a.channel, a.remote_subdir)
        resolved_ossutil == IF a.ossutil # "" THEN a.ossutil ELSE def_ossutil
        config0 == IF a.config # "" THEN a.config ELSE def_config
        resolved_config == IF config0 # "" /\ config0 \notin w.fs THEN "" ELSE config0
        command == build_command(w.source_is_dir, a.source, t.value,
                                 resolved_ossutil, resolved_config, a.force, a.update)
    IN  IF t.raised # ""
        THEN UploadResult(t.raised, 1, <<>>, FALSE, <<>>, "", "", FALSE)
        ELSE UploadResult("", run_uploader(w.run), t.value, TRUE, command,
                          resolved_config, resolved_ossutil, TRUE)

\* the body shared by upload_oss and by main of oss/upload_oss.py, which
\* differ in the default paths only; a holds the arguments, w the world:
\* source_exists, source_is_dir, fs (existing paths) and run
upload_body(a, w, def_ossutil, def_config) ==
  IF ~w.source_exists
  THEN UploadResult("", 1, <<>>, FALSE, <<>>, "", "", FALSE)
  ELSE
    LET t == build_target(a.target, a.stage, a.channel, a.remote_subdir)
        resolved_ossutil == IF a.ossutil # "" THEN a.ossutil ELSE def_ossutil
        config0 == IF a.config # "" THEN a.config ELSE def_config
        resolved_config == IF config0 # "" /\ config0 \notin w.fs THEN "" ELSE config0
        command == build_command(w.source_is_dir, a.source, t.value,
                                 resolved_ossutil, resolved_config, a.force, a.update)
    IN  IF t.raised # ""
        THEN UploadResult(t.raised, 1, <<>>, FALSE, <<>>, "", "", FALSE)
        ELSE IF a.dry_run
        THEN UploadResult("", 0, t.value, TRUE, command, resolved_config,
                          resolved_ossutil, FALSE)
        ELSE UploadResult("", run_uploader(w.run), t.value, TRUE, command,
                          resolved_config, resolved_ossutil, TRUE)

upload_oss(a, w) ==
  upload_body(a, w, default_ossutil_path(w.fs), default_config_path(w.fs))

\* main of oss/upload_oss.py
oss_main(a, w) ==
  upload_body(a, w, legacy_default_ossutil_path(w.fs), legacy_default_config_path(w.fs))

\* exit status of a Python process whose main returned ret, called
\* sys.exit(ret), or let an exception escape (the interpreter then exits
\* with 1)
ProcessExit(r) ==
  IF r.raised = "SystemExit" THEN r.ret
  ELSE IF r.raised # "" THEN 1
  ELSE r.ret

\* ------------------------------------------------------------------------
\* Notice pipeline: pure parts (app/notice/gen_notice_json.py and the older
\* notice/gen_notice_json.py)
\* ------------------------------------------------------------------------
EnvTest == <<"t", "e", "s", "t">>

EnvProd == <<"p", "r", "o", "d">>

\* value.strip() == ""
Blank(value) == Strip(value, Whitespace) = <<>>

\* rejects the empty string only, without stripping
validate_required_NoStrip(value) ==
  IF value = <<>> THEN "ValueError" ELSE ""

\* "" when the value is returned, "ValueError" when the check raises
validate_required(value) ==
  IF Strip(value, Whitespace) = <<>> THEN "ValueError" ELSE ""

validate_environment(value) ==
  IF value \notin {EnvTest, EnvProd} THEN "ValueError" ELSE ""

\* normalize_text_arg for the token list argparse collects with nargs="+"
normalize_text_arg(tokens) == Join(tokens, <<SP>>)

normalize_content_arg(tokens) == Join(tokens, <<LF>>)

\* base64.b64decode(blob).decode("utf-8") on the blobs the model passes:
\* "eFxueQ==" encodes x, backslash, n, y and "IA==" encodes one space
B64Decode(blob) ==
  CASE blob = "eFxueQ==" -> <<"x", BSL, "n", "y">>
    [] blob = "IA==" -> <<SP>>
    [] OTHER -> <<>>

\* bool(...) of the four content arguments; an argument that was not given
\* is None, one that was given holds its value
Truthy(opt) == opt.given /\ opt.value # ""

TruthyList(opt) == opt.given /\ opt.value # <<>>

content_sources_count(a) ==
  (IF TruthyList(a.content) THEN 1 ELSE 0)
    + (IF Truthy(a.content_base64) THEN 1 ELSE 0)
    + (IF Truthy(a.content_file) THEN 1 ELSE 0)
    + (IF a.content_stdin THEN 1 ELSE 0)

\* resolve_content: error is "" or the exception raised, io the file and
\* stdin operations performed; w says whether the content file exists and
\* what the file and stdin hold
resolve_content(a, w) ==
  IF Truthy(a.content_base64)
  THEN [error |-> "", io |-> <<>>,
        content |-> normalize_content_text(B64Decode(a.content_base64.value))]
  ELSE IF Truthy(a.content_file)
  THEN IF ~w.file_exists
       THEN [error |-> "FileNotFoundError", io |-> <<"stat_content_file">>,
             content |-> <<>>]
       ELSE [error |-> "", io |-> <<"stat_content_file", "read_content_file">>,
             content |-> normalize_content_text(w.file_text)]
  ELSE IF a.content_stdin
  THEN [error |-> "", io |-> <<"read_stdin">>,
        content |-> normalize_content_text(w.stdin_text)]
  ELSE [error |-> "", io |-> <<>>,
        content |-> normalize_content_text(
                      normalize_content_arg(IF a.content.given
                                            THEN a.content.value ELSE <<>>))]

\* parse_args of app/notice: error "parser.error" ends the process with
\* status 2 before resolve_content is called
parse_args(a, w) ==
  LET title == normalize_text_arg(a.title)
      author == normalize_text_arg(a.author)
      count == content_sources_count(a)
      rc == resolve_content(a, w)
  IN  IF count = 0 \/ count > 1
      THEN [error |-> "parser.error", io |-> <<>>, title |-> title,
            author |-> author, content |-> <<>>]
      ELSE [error |-> rc.error, io |-> rc.io, title |-> title,
            author |-> author, content |-> rc.content]

\* parse_args of the older notice script: plain strings, content required,
\* nothing normalized
legacy_parse_args(a) ==
  [error |-> "", io |-> <<>>, title |-> a.title[1], author |-> a.author[1],
   content |-> a.content.value[1]]

\* the five checks of main in order; "" when all pass
validate_fields(channel, env, title, author, content) ==
  IF validate_required(channel) # "" THEN "ValueError"
  ELSE IF validate_required(env) # "" THEN "ValueError"
  ELSE IF validate_environment(env) # "" THEN "ValueError"
  ELSE IF validate_required(title) # "" THEN "ValueError"
  ELSE IF validate_required(author) # "" THEN "ValueError"
  ELSE validate_required(content)

build_notice(channel, environment, title, author, theme, content) ==
  [channel |-> channel, environment |-> environment, title |-> title,
   author |-> author, theme |-> theme, content |-> content]

\* get_oss_upload_params / get_oss_args: the stage and channel handed to
\* the uploader
get_oss_upload_params(env, channel) ==
  LET stage == IF env = EnvProd THEN "2" ELSE "1"
      ch == Strip(channel, Whitespace)
  IN  IF ch = <<>>
      THEN [raised |-> "ValueError", stage |-> stage, channel |-> ch]
      ELSE [raised |-> "", stage |-> stage, channel |-> ch]

\* send_wecom_message: resp is what the webhook call produces, a JSON body
\* (with or without errcode) or a failure of the request
send_wecom_message(resp) ==
  IF resp.kind = "json" THEN [raised |-> "", result |-> resp]
  ELSE IF resp.kind \in {"HTTPError", "URLError"}
  THEN [raised |-> "RuntimeError", result |-> resp]
  ELSE [raised |-> resp.kind, result |-> resp]

\* send_notify_markdown of app/notice: "" or the exception raised
send_notify_markdown(resp) ==
  LET r == send_wecom_message(resp)
  IN  IF r.raised # "" THEN r.raised
      ELSE IF ~r.result.has_errcode \/ r.result.errcode # 0 THEN "RuntimeError"
      ELSE ""

\* main of notify_markdown.py as a process: its exit status
notify_markdown_main(resp) ==
  LET r == send_wecom_message(resp)
  IN  IF r.raised # "" THEN 1 ELSE 0

\* send_notify_markdown of the older notice script: "" or the exception
legacy_send_notify_markdown(script_exists, resp) ==
  IF ~script_exists THEN "FileNotFoundError"
  ELSE IF notify_markdown_main(resp) # 0 THEN "RuntimeError"
  ELSE ""

\* ------------------------------------------------------------------------
\* State
\* ------------------------------------------------------------------------
\* normalization of one content text: nPc is the position, nIn the raw
\* text, nOnce and nTwice the results of the first and second application
VARIABLES nPc, nIn, nOnce, nTwice

\* one call of the uploader: uPc is "call" before it and the entry point
\* used after it, uArgs the arguments, uWorld the file system and the
\* outcome of the spawned process, uRes what the call left behind
VARIABLES uPc, uArgs, uWorld, uRes

\* one run of the notice pipeline: variant is the script run ("app" calls
\* the uploader and the notifier in-process, "legacy" spawns them), args the
\* command line, pc the stage, stages the stages entered so far, fields the
\* title, author and content parse_args produced, notice the record built,
\* artifact the JSON file, io the operations on files, processes and the
\* network in the order performed, upRun the outcome of the spawned
\* uploader, upRes what the uploader call left behind, nResp the answer of
\* the webhook, exitCode the exit status of the run (-1 while it runs)
VARIABLES variant, args, pc, stages, fields, notice, artifact, io, upRun, upRes,
          nResp, exitCode

normVars == <<nPc, nIn, nOnce, nTwice>>
uploadVars == <<uPc, uArgs, uWorld, uRes>>
pipeVars == <<variant, args, pc, stages, fields, notice, artifact, io, upRun, upRes,
              nResp, exitCode>>
vars == <<nPc, nIn, nOnce, nTwice, uPc, uArgs, uWorld, uRes,
          variant, args, pc, stages, fields, notice, artifact, io, upRun, upRes,
          nResp, exitCode>>

\* largest exit status of the spawned uploader explored
MaxExit == 2

RunOutcomes ==
  {[kind |-> "exit", code |-> c] : c \in 0..MaxExit}
    \cup {[kind |-> "FileNotFoundError", code |-> 0], [kind |-> "OSError", code |-> 0]}

HotUpdateDir == <<"h", "o", "t", "_", "u", "p", "d", "a", "t", "e", "/">>

NoticeDir == <<"n", "o", "t", "i", "c", "e", "/">>

DefaultUploadArgs ==
  [source |-> "/out/notice_update.json", target |-> <<>>, stage |-> "1",
   channel |-> <<>>, remote_subdir |-> HotUpdateDir, ossutil |-> "",
   config |-> "", update |-> FALSE, force |-> FALSE, dry_run |-> FALSE]

DefaultWorld ==
  [source_exists |-> TRUE, source_is_dir |-> FALSE, fs |-> {},
   run |-> [kind |-> "exit", code |-> 0]]

NormIdle ==
  /\ nPc = "idle"
  /\ nIn = <<>>
  /\ nOnce = <<>>
  /\ nTwice = <<>>

UploadIdle ==
  /\ uPc = "idle"
  /\ uArgs = DefaultUploadArgs
  /\ uWorld = DefaultWorld
  /\ uRes = NoUpload

NotGiven == [given |-> FALSE, value |-> ""]

NotGivenList == [given |-> FALSE, value |-> <<>>]

NoArgs ==
  [channel |-> <<>>, env |-> <<>>, title |-> <<<<>>>>, author |-> <<<<>>>>,
   content |-> NotGivenList, content_base64 |-> NotGiven,
   content_file |-> NotGiven, content_stdin |-> FALSE]

NoFields == [title |-> <<>>, author |-> <<>>, content |-> <<>>]

NoNotice == build_notice(<<>>, <<>>, <<>>, <<>>, <<>>, <<>>)

NoArtifact == [written |-> FALSE, data |-> NoNotice]

NoRun == [kind |-> "none", code |-> 0]

NoResponse == [kind |-> "none", has_errcode |-> FALSE, errcode |-> 0]

\* the state of a run before its first step, whatever the command line
PipeStart ==
  /\ stages = <<"Parsing">>
  /\ fields = NoFields
  /\ notice = NoNotice
  /\ artifact = NoArtifact
  /\ io = <<>>
  /\ upRun = NoRun
  /\ upRes = NoUpload
  /\ nResp = NoResponse
  /\ exitCode = -1

PipeIdle ==
  /\ variant = "none"
  /\ args = NoArgs
  /\ pc = "idle"
  /\ PipeStart

\* longest content string explored
MaxLen == 4

ContentAlphabet == {CR, LF, BSL, BTK, "r", "n", "a"}

NormInit ==
  /\ nPc = "raw"
  /\ nIn \in StringsUpTo(ContentAlphabet, MaxLen)
  /\ nOnce = <<>>
  /\ nTwice = <<>>
  /\ UploadIdle
  /\ PipeIdle

\* first application, as resolve_content applies it to the extracted text
Normalize ==
  /\ nPc = "raw"
  /\ nOnce' = normalize_content_text(nIn)
  /\ nPc' = "once"
  /\ UNCHANGED <<nIn, nTwice>>
  /\ UNCHANGED uploadVars
  /\ UNCHANGED pipeVars

\* re-application to the already normalized text
Renormalize ==
  /\ nPc = "once"
  /\ nTwice' = normalize_content_text(nOnce)
  /\ nPc' = "twice"
  /\ UNCHANGED <<nIn, nOnce>>
  /\ UNCHANGED uploadVars
  /\ UNCHANGED pipeVars

NormNext == Normalize \/ Renormalize

SpecNorm == NormInit /\ [][NormNext]_vars

EscapedForms ==
  {<<BSL, "n">>, <<BSL, "r">>, <<BTK, "n">>, <<BTK, "r">>}

\* C5: normalizing already-normalized text changes nothing, and normalized
\* text holds no carriage return and no escaped line-ending form
\* (backslash-n, backslash-r, backtick-n, backtick-r).
C5_NormalizeIdempotent ==
  /\ nPc \in {"once", "twice"} =>
       /\ ~Contains(nOnce, <<CR>>)
       /\ \A f \in EscapedForms : ~Contains(nOnce, f)
  /\ nPc = "twice" => nTwice = nOnce

\* a text with a carriage return and an escaped form was normalized to
\* something else and then normalized again
C5_Witness ==
  /\ nPc = "twice"
  /\ \E f \in EscapedForms : Contains(nIn, f)
  /\ Contains(nIn, <<CR>>)
  /\ nOnce # nIn

\* ------------------------------------------------------------------------
\* The uploader called on its own
\* ------------------------------------------------------------------------
\* longest channel, sub-directory and target suffix explored
MaxSeg == 2

TargetAlphabet == {SL, BSL, "c"}

\* beginnings of explicit targets: the scheme, the scheme written with
\* backslashes, a truncated scheme, another scheme, none
SchemeForms ==
  {OssScheme,
   <<"o", "s", "s", ":", BSL, BSL>>,
   <<"o", "s", "s", ":", SL, BSL>>,
   <<"o", "s", "s", ":", SL>>,
   <<"h", "t", "t", "p", ":", SL, SL>>,
   <<>>}

ExplicitTargets ==
  {p \o t : p \in SchemeForms, t \in StringsUpTo(TargetAlphabet, MaxSeg)} \ {<<>>}

\* calls that vary the target and the parts it is derived from
TargetInit ==
  /\ uPc = "call"
  /\ \/ \E t \in ExplicitTargets :
          uArgs = [DefaultUploadArgs EXCEPT !.target = t]
     \/ \E st \in {"1", "2", "3"}, ch \in StringsUpTo(TargetAlphabet, MaxSeg),
           rs \in StringsUpTo(TargetAlphabet, MaxSeg) :
          uArgs = [DefaultUploadArgs EXCEPT !.stage = st, !.channel = ch,
                                           !.remote_subdir = rs]
  /\ \E se \in BOOLEAN : uWorld = [DefaultWorld EXCEPT !.source_exists = se]
  /\ uRes = NoUpload
  /\ NormIdle
  /\ PipeIdle

ExplicitConfig == "/etc/meowgames.ossutilconfig"

ExplicitOssutil == "/opt/ossutil/ossutil"

\* the paths whose existence the uploader asks for
UploadPaths ==
  {ConfigCandidates[1], ConfigCandidates[2], ConfigCandidates[3], ExplicitConfig,
   OssutilCandidates[1], OssutilCandidates[2]}

\* calls that vary the source, the paths, the flags and the outcome of
\* the spawned process
UploadInit ==
  /\ uPc = "call"
  /\ \E t \in {<<>>, OssScheme \o <<"b", SL>>, <<"h", "t", "t", "p", ":", SL, SL, "b">>},
        ou \in {"", ExplicitOssutil},
        cf \in {"", ExplicitConfig}, up \in BOOLEAN, fo \in BOOLEAN, dr \in BOOLEAN :
       uArgs = [DefaultUploadArgs EXCEPT !.target = t, !.ossutil = ou, !.config = cf,
                                        !.update = up, !.force = fo, !.dry_run = dr]
  /\ \E se \in BOOLEAN, sd \in BOOLEAN, fs \in SUBSET UploadPaths, run \in RunOutcomes :
       /\ sd => se
       /\ uWorld = [source_exists |-> se, source_is_dir |-> sd, fs |-> fs, run |-> run]
  /\ uRes = NoUpload
  /\ NormIdle
  /\ PipeIdle

\* upload_oss(...) of infra/oss/upload_oss.py, called in-process
CallUploadOss ==
  /\ uPc = "call"
  /\ uRes' = upload_oss(uArgs, uWorld)
  /\ uPc' = "upload_oss"
  /\ UNCHANGED <<uArgs, uWorld>>
  /\ UNCHANGED normVars
  /\ UNCHANGED pipeVars

\* python oss/upload_oss.py ...: argparse admits the stages "1" and "2"
\* only and ends the process with status 2 otherwise
CallOssMain ==
  /\ uPc = "call"
  /\ uRes' = IF uArgs.stage \notin {"1", "2"}
             THEN UploadResult("SystemExit", 2, <<>>, FALSE, <<>>, "", "", FALSE)
             ELSE oss_main(uArgs, uWorld)
  /\ uPc' = "oss_main"
  /\ UNCHANGED <<uArgs, uWorld>>
  /\ UNCHANGED normVars
  /\ UNCHANGED pipeVars

UploadNext == CallUploadOss \/ CallOssMain

SpecTarget == TargetInit /\ [][UploadNext]_vars

SpecUpload == UploadInit /\ [][UploadNext]_vars

uReturned == uPc \in {"upload_oss", "oss_main"}

\* C6: a derived target (no explicit target given) starts with oss:// and
\* ends with exactly one slash, whatever the stage, channel and
\* sub-directory are.
C6_DerivedTargetOneSlash ==
  (uReturned /\ uArgs.target = <<>> /\ uRes.built) =>
    LET t == uRes.target
    IN  /\ StartsWith(t, OssScheme)
        /\ t[Len(t)] = SL
        /\ t[Len(t) - 1] # SL

\* the target with every backslash turned into a slash, character by character
Slashed(t) == [i \in 1..Len(t) |-> IF t[i] = BSL THEN SL ELSE t[i]]

\* C7 as stated: an explicit target that does not begin with oss:// is
\* rejected with a validation error and nothing is spawned.
C7_Original ==
  (uReturned /\ uArgs.target # <<>> /\ ~StartsWith(uArgs.target, OssScheme)) =>
    /\ ~uRes.spawned
    /\ uWorld.source_exists => uRes.raised = "ValueError"

\* C7 amended: an explicit target is rejected with a validation error, and
\* nothing is spawned, exactly when its form with backslashes turned into
\* slashes does not begin with oss://; an accepted explicit target is
\* returned with every backslash turned into a slash and nothing else
\* changed, and the returned value begins with oss://.
C7_ExplicitTarget ==
  (uReturned /\ uArgs.target # <<>>) =>
    /\ ~StartsWith(Slashed(uArgs.target), OssScheme) =>
         /\ ~uRes.spawned
         /\ ~uRes.built
         /\ ProcessExit(uRes) # 0
         /\ uWorld.source_exists => uRes.raised = "ValueError"
    /\ (StartsWith(Slashed(uArgs.target), OssScheme) /\ uWorld.source_exists) =>
         /\ uRes.raised = ""
         /\ uRes.built
    /\ uRes.built =>
         /\ uRes.target = Slashed(uArgs.target)
         /\ StartsWith(uRes.target, OssScheme)

\* a target whose scheme is written with backslashes was accepted, converted
\* and handed to the spawned uploader
C7_Witness ==
  /\ uReturned
  /\ StartsWith(uArgs.target, <<"o", "s", "s", ":", BSL, BSL>>)
  /\ uRes.spawned
  /\ uRes.target # uArgs.target

\* C10: the command is <uploader> <action> <source> <target>, then
\* -c <config> iff a config path is in effect, then -f iff force, then -u
\* iff update, and nothing else; the action is sync iff the source is a
\* directory and cp otherwise.
C10_CommandShape ==
  (uReturned /\ uRes.built) =>
    LET cmd == uRes.command
        c == IF uRes.config # "" THEN 2 ELSE 0
        f == IF uArgs.force THEN 1 ELSE 0
        u == IF uArgs.update THEN 1 ELSE 0
    IN  /\ Len(cmd) = 4 + c + f + u
        /\ cmd[1] = uRes.ossutil
        /\ cmd[2] = (IF uWorld.source_is_dir THEN "sync" ELSE "cp")
        /\ cmd[3] = uArgs.source
        /\ cmd[4] = uRes.target
        /\ c = 2 => (cmd[5] = "-c" /\ cmd[6] = uRes.config)
        /\ f = 1 => cmd[5 + c] = "-f"
        /\ u = 1 => cmd[5 + c + f] = "-u"

\* a directory source was uploaded with a config file and both flags
C10_Witness ==
  /\ uReturned
  /\ uRes.spawned
  /\ uWorld.source_is_dir
  /\ uRes.config # ""
  /\ uArgs.force
  /\ uArgs.update
  /\ Len(uRes.command) = 8

\* ------------------------------------------------------------------------
\* The notice pipeline (main of both notice scripts)
\* ------------------------------------------------------------------------
\* longest channel argument explored
MaxChan == 1

ChannelAlphabet == {SP, SL, "i"}

EnvValues == {EnvTest, EnvProd, <<"d", "e", "v">>, <<>>, <<SP>>}

\* texts a content file or stdin may hold
ContentTexts == {<<>>, <<CR, LF>>, <<"x", BSL, "n", "y">>}

ContentFile == "notice.txt"

ContentWorlds ==
  [file_exists : BOOLEAN, file_text : ContentTexts, stdin_text : ContentTexts]

\* what the webhook call may produce
WebhookResponses ==
  {[kind |-> "json", has_errcode |-> TRUE, errcode |-> c] : c \in {0, 40008, 93000}}
    \cup {[kind |-> "json", has_errcode |-> FALSE, errcode |-> 0]}
    \cup {[kind |-> k, has_errcode |-> FALSE, errcode |-> 0] :
            k \in {"HTTPError", "URLError", "TimeoutError"}}

\* the paths whose existence decides the uploader and config of a run
PipelinePaths == {ConfigCandidates[1], ConfigCandidates[2], OssutilCandidates[2]}

ArtifactPath == "/out/notice_update.json"

PipeInit ==
  /\ variant \in {"app", "legacy"}
  /\ pc = "Parsing"
  /\ \E ch \in StringsUpTo(ChannelAlphabet, MaxChan), env \in EnvValues,
        ti \in {<<<<>>>>, <<<<"t">>>>, <<<<>>, <<>>>>},
        au \in {<<<<>>>>, <<<<"a">>>>},
        co \in {NotGivenList, [given |-> TRUE, value |-> <<<<>>>>],
                [given |-> TRUE, value |-> <<<<"x", BSL, "n", "y">>>>]},
        b64 \in {NotGiven, [given |-> TRUE, value |-> ""],
                 [given |-> TRUE, value |-> "eFxueQ=="]},
        cf \in {NotGiven, [given |-> TRUE, value |-> ""],
                [given |-> TRUE, value |-> ContentFile]},
        si \in BOOLEAN :
       \* the older script takes one string per option and no other
       \* content source than --content, which it requires
       /\ variant = "legacy" =>
            /\ Len(ti) = 1
            /\ co.given
            /\ b64 = NotGiven /\ cf = NotGiven /\ si = FALSE
       /\ args = [channel |-> ch, env |-> env, title |-> ti, author |-> au,
                  content |-> co, content_base64 |-> b64, content_file |-> cf,
                  content_stdin |-> si]
  /\ PipeStart
  /\ NormIdle
  /\ UploadIdle

Enter(stage) == stages' = Append(stages, stage)

Fail(code) ==
  /\ pc' = "Failed"
  /\ Enter("Failed")
  /\ exitCode' = code

\* parse_args(argv), resolve_content included
ParseArgs ==
  /\ pc = "Parsing"
  /\ \E w \in ContentWorlds :
       LET r == IF variant = "app" THEN parse_args(args, w) ELSE legacy_parse_args(args)
       IN  /\ fields' = [title |-> r.title, author |-> r.author, content |-> r.content]
           /\ io' = io \o r.io
           /\ IF r.error = "" THEN /\ pc' = "Validating"
                                   /\ Enter("Validating")
                                   /\ UNCHANGED exitCode
              ELSE IF r.error = "parser.error" THEN Fail(2)
              ELSE Fail(1)
  /\ UNCHANGED <<variant, args, notice, artifact, upRun, upRes, nResp>>
  /\ UNCHANGED <<normVars, uploadVars>>

\* the validate_required / validate_environment calls of main
Validate ==
  /\ pc = "Validating"
  /\ IF validate_fields(args.channel, args.env, fields.title, fields.author,
                        fields.content) # ""
     THEN Fail(1)
     ELSE /\ pc' = "Building"
          /\ Enter("Building")
          /\ UNCHANGED exitCode
  /\ UNCHANGED <<variant, args, fields, notice, artifact, io, upRun, upRes, nResp>>
  /\ UNCHANGED <<normVars, uploadVars>>

Build ==
  /\ pc = "Building"
  /\ notice' = build_notice(args.channel, args.env, fields.title, fields.author,
                            <<>>, fields.content)
  /\ pc' = "Writing"
  /\ Enter("Writing")
  /\ UNCHANGED <<variant, args, fields, artifact, io, upRun, upRes, nResp, exitCode>>
  /\ UNCHANGED <<normVars, uploadVars>>

\* ensure_output_dir and write_json_file; either may fail with OSError
WriteArtifact ==
  /\ pc = "Writing"
  /\ \E outcome \in {"ok", "mkdir_fails", "write_fails"} :
       IF outcome = "mkdir_fails"
       THEN /\ io' = io \o <<"mkdir">>
            /\ Fail(1)
            /\ UNCHANGED artifact
       ELSE IF outcome = "write_fails"
       THEN /\ io' = io \o <<"mkdir", "write_artifact">>
            /\ Fail(1)
            /\ UNCHANGED artifact
       ELSE /\ io' = io \o <<"mkdir", "write_artifact">>
            /\ artifact' = [written |-> TRUE, data |-> notice]
            /\ pc' = "Uploading"
            /\ Enter("Uploading")
            /\ UNCHANGED exitCode
  /\ UNCHANGED <<variant, args, fields, notice, upRun, upRes, nResp>>
  /\ UNCHANGED <<normVars, uploadVars>>

\* the arguments upload_to_oss hands to the uploader
PipelineUploadArgs(p) ==
  [DefaultUploadArgs EXCEPT !.source = ArtifactPath, !.stage = p.stage,
                            !.channel = p.channel, !.remote_subdir = NoticeDir,
                            !.force = TRUE, !.update = TRUE]

\* the same step cleaning up after a failed upload: the artifact file is
\* removed before the error is raised
Upload_RemovesArtifactOnFailure ==
  /\ pc = "Uploading"
  /\ \E fs \in SUBSET PipelinePaths, run \in RunOutcomes, script_exists \in BOOLEAN :
       LET p == get_oss_upload_params(args.env, args.channel)
           w == [source_exists |-> artifact.written, source_is_dir |-> FALSE,
                 fs |-> fs, run |-> run]
           res == IF variant = "app" THEN upload_oss(PipelineUploadArgs(p), w)
                  ELSE oss_main(PipelineUploadArgs(p), w)
       IN  IF p.raised # "" \/ (variant = "legacy" /\ ~script_exists)
           THEN /\ Fail(1)
                /\ artifact' = NoArtifact
                /\ UNCHANGED <<io, upRun, upRes>>
           ELSE /\ io' = io \o <<"upload_start">>
                            \o (IF res.spawned THEN <<"spawn_uploader">> ELSE <<>>)
                /\ upRun' = IF res.spawned THEN run ELSE NoRun
                /\ upRes' = res
                /\ IF ProcessExit(res) # 0
                   THEN /\ Fail(1)
                        /\ artifact' = NoArtifact
                   ELSE /\ pc' = "Notifying"
                        /\ Enter("Notifying")
                        /\ UNCHANGED <<exitCode, artifact>>
  /\ UNCHANGED <<variant, args, fields, notice, nResp>>
  /\ UNCHANGED <<normVars, uploadVars>>

\* upload_to_oss: the in-process call of upload_oss ("app") or the spawned
\* oss/upload_oss.py ("legacy"), and the raise on a non-zero result
Upload ==
  /\ pc = "Uploading"
  /\ \E fs \in SUBSET PipelinePaths, run \in RunOutcomes, script_exists \in BOOLEAN :
       LET p == get_oss_upload_params(args.env, args.channel)
           w == [source_exists |-> artifact.written, source_is_dir |-> FALSE,
                 fs |-> fs, run |-> run]
           res == IF variant = "app" THEN upload_oss(PipelineUploadArgs(p), w)
                  ELSE oss_main(PipelineUploadArgs(p), w)
       IN  IF p.raised # "" \/ (variant = "legacy" /\ ~script_exists)
           THEN /\ Fail(1)
                /\ UNCHANGED <<io, upRun, upRes>>
           ELSE /\ io' = io \o <<"upload_start">>
                            \o (IF res.spawned THEN <<"spawn_uploader">> ELSE <<>>)
                /\ upRun' = IF res.spawned THEN run ELSE NoRun
                /\ upRes' = res
                /\ IF ProcessExit(res) # 0
                   THEN Fail(1)
                   ELSE /\ pc' = "Notifying"
                        /\ Enter("Notifying")
                        /\ UNCHANGED exitCode
  /\ UNCHANGED <<variant, args, fields, notice, artifact, nResp>>
  /\ UNCHANGED <<normVars, uploadVars>>

\* send_notify_markdown: the in-process call of send_wecom_message ("app") or
\* the spawned notify_markdown.py ("legacy"); main then returns 0
Notify ==
  /\ pc = "Notifying"
  /\ \E resp \in WebhookResponses, script_exists \in BOOLEAN :
       LET err == IF variant = "app" THEN send_notify_markdown(resp)
                  ELSE legacy_send_notify_markdown(script_exists, resp)
           posted == variant = "app" \/ script_exists
       IN  /\ io' = io \o (IF posted THEN <<"webhook_post">> ELSE <<>>)
           /\ nResp' = IF posted THEN resp ELSE NoResponse
           /\ IF err # ""
              THEN Fail(1)
              ELSE /\ pc' = "Done"
                   /\ Enter("Done")
                   /\ exitCode' = 0
  /\ UNCHANGED <<variant, args, fields, notice, artifact, upRun, upRes>>
  /\ UNCHANGED <<normVars, uploadVars>>

Next == ParseArgs \/ Validate \/ Build \/ WriteArtifact \/ Upload \/ Notify

Spec == PipeInit /\ [][Next]_vars

Did(e) == \E i \in 1..Len(io) : io[i] = e

Times(e) == Cardinality({i \in 1..Len(io) : io[i] = e})

StageOrder ==
  <<"Parsing", "Validating", "Building", "Writing", "Uploading", "Notifying", "Done">>

\* the webhook call failed, or answered with an errcode other than 0
NotifyFailed ==
  \/ nResp.kind \in {"HTTPError", "URLError", "TimeoutError"}
  \/ nResp.kind = "json" /\ nResp.has_errcode /\ nResp.errcode # 0

\* the stages are entered in the one order, a failure ends the run at once,
\* and no operation is performed before the one it depends on or twice
C1_OrderOfStages ==
  /\ \E k \in 1..7 :
       \/ stages = SubSeq(StageOrder, 1, k)
       \/ k < 7 /\ stages = SubSeq(StageOrder, 1, k) \o <<"Failed">>
  /\ pc = stages[Len(stages)]
  /\ Did("write_artifact") =>
       validate_fields(args.channel, args.env, fields.title, fields.author,
                       fields.content) = ""
  /\ Did("upload_start") => artifact.written
  /\ Did("webhook_post") => (Did("upload_start") /\ ProcessExit(upRes) = 0)
  /\ \A e \in {"mkdir", "write_artifact", "upload_start", "spawn_uploader",
               "webhook_post"} : Times(e) <= 1
  /\ pc = "Failed" => exitCode # 0
  /\ pc = "Done" => exitCode = 0
  /\ upRun.kind \in {"FileNotFoundError", "OSError"} =>
       (pc = "Failed" /\ ~Did("webhook_post"))
  /\ (upRes.built /\ ProcessExit(upRes) # 0) => (pc = "Failed" /\ ~Did("webhook_post"))

\* C1: in every run the stages occur only in the order validate, build,
\* write, upload, notify, done; the artifact is written only after
\* validation passed, the upload started only after the artifact was
\* written, the webhook called only after the upload returned 0; any stage
\* failure ends the run failed with a non-zero exit status, nothing later
\* attempted and nothing retried.
C1_StagesInOrderFailureEnds ==
  /\ C1_OrderOfStages
  /\ NotifyFailed => (pc = "Failed" /\ exitCode # 0)

UploaderExitedNonZero == upRun.kind = "exit" /\ upRun.code # 0

SuppliedSources ==
  (IF args.content.given THEN 1 ELSE 0)
    + (IF args.content_base64.given THEN 1 ELSE 0)
    + (IF args.content_file.given THEN 1 ELSE 0)
    + (IF args.content_stdin THEN 1 ELSE 0)

\* C3: when the number of content sources supplied (an empty value counts)
\* is zero or more than one, parse_args rejects the invocation, before any
\* file or stdin is read.
C3_SourcesRejected ==
  (variant = "app" /\ pc # "Parsing" /\ SuppliedSources # 1) =>
    /\ stages = <<"Parsing", "Failed">>
    /\ exitCode = 2
    /\ io = <<>>

InvalidInput ==
  \/ Blank(args.channel)
  \/ Blank(args.env)
  \/ args.env \notin {EnvTest, EnvProd}
  \/ Blank(fields.title)
  \/ Blank(fields.author)
  \/ Blank(fields.content)

SideEffects ==
  {"mkdir", "write_artifact", "upload_start", "spawn_uploader", "webhook_post"}

\* C4: when a required field is blank after trimming, or the environment is
\* neither test nor prod, the run fails with a non-zero exit status and no
\* output directory, artifact, upload or webhook call was attempted; where
\* the artifact is written, every required field is non-blank and the
\* environment is test or prod.
C4_InvalidInputNoSideEffect ==
  /\ (InvalidInput /\ pc \notin {"Parsing", "Validating"}) =>
       (pc = "Failed" /\ exitCode # 0)
  /\ (InvalidInput /\ pc # "Parsing") =>
       (~artifact.written /\ \A e \in SideEffects : ~Did(e))
  /\ artifact.written =>
       /\ ~InvalidInput
       /\ \A f \in {"channel", "environment", "title", "author", "content"} :
            ~Blank(artifact.data[f])
       /\ artifact.data.environment \in {EnvTest, EnvProd}

\* a whitespace-only channel was rejected by the validation
C4_Witness ==
  /\ args.channel = <<SP>>
  /\ args.env = EnvProd
  /\ stages = <<"Parsing", "Validating", "Failed">>
  /\ exitCode = 1

\* C8: for every input that passes validation the upload target is the
\* host of the environment, then a non-empty channel segment, then notice/.
C8_TargetHostChannelNotice ==
  upRes.built =>
    LET host == IF args.env = EnvProd THEN PROD_OSS_HOST ELSE TEST_OSS_HOST
        seg == Strip(Strip(args.channel, Whitespace), {SL})
    IN  /\ args.env \in {EnvTest, EnvProd}
        /\ seg # <<>>
        /\ upRes.target = host \o seg \o <<SL>> \o NoticeDir

\* C9: a webhook answer whose errcode is not 0 is a dispatch failure: the
\* run does not reach Done and exits non-zero, with either notifier.
C9_ErrcodeFails ==
  (nResp.kind = "json" /\ nResp.has_errcode /\ nResp.errcode # 0) =>
    (pc = "Failed" /\ exitCode # 0)

Entered(stage) == \E i \in 1..Len(stages) : stages[i] = stage

\* C11: no stage rolls anything back. Once written, the artifact stays on
\* disk with the content written, through an upload failure (uploader
\* missing, non-zero exit, failed start) as through a notification failure;
\* what the upload did stays done after a notification failure; nothing
\* performed is ever taken back.
C11_NoRollback ==
  /\ [](Entered("Uploading") => (artifact.written /\ artifact.data = notice))
  /\ []((pc = "Failed" /\ Entered("Notifying")) =>
          (upRes.spawned /\ ProcessExit(upRes) = 0 /\ Did("spawn_uploader")))
  /\ [][/\ artifact.written => artifact' = artifact
        /\ upRes.built => upRes' = upRes
        /\ Len(io') >= Len(io)
        /\ SubSeq(io', 1, Len(io)) = io]_vars

\* the uploader binary was not found: the run failed after the artifact was
\* written, and the artifact is there
C11_Witness ==
  /\ pc = "Failed"
  /\ upRun.kind = "FileNotFoundError"
  /\ Did("write_artifact")
  /\ artifact.written
  /\ artifact.data = notice

\* the target is derived, or explicit and beginning with oss:// once its
\* backslashes are slashes
TargetAccepted ==
  uArgs.target = <<>> \/ StartsWith(Slashed(uArgs.target), OssScheme)

\* C12 as stated: in dry-run mode the uploader is never spawned and the call
\* returns 0, whatever the source, target and flags.
C12_Original ==
  (uReturned /\ uArgs.dry_run) =>
    /\ ~uRes.spawned
    /\ uRes.raised = ""
    /\ uRes.ret = 0

\* C12 amended: in dry-run mode the uploader is never spawned; the call
\* returns 0 when the source exists and the target is accepted, returns 1
\* when the source does not exist, and raises the validation error when the
\* source exists and the explicit target is rejected.
C12_DryRun ==
  (uReturned /\ uArgs.dry_run) =>
    /\ ~uRes.spawned
    /\ (uWorld.source_exists /\ TargetAccepted) =>
         (uRes.raised = "" /\ uRes.ret = 0 /\ uRes.built)
    /\ ~uWorld.source_exists => (uRes.raised = "" /\ uRes.ret = 1 /\ ~uRes.built)
    /\ (uWorld.source_exists /\ ~TargetAccepted) =>
         (uRes.raised = "ValueError" /\ ~uRes.built)

\* a dry run returned 0 with the command built, where running the command
\* would have failed for want of the uploader binary
C12_Witness ==
  /\ uPc = "upload_oss"
  /\ uArgs.dry_run
  /\ uWorld.run.kind = "FileNotFoundError"
  /\ uRes.built
  /\ ~uRes.spawned
  /\ uRes.ret = 0

\* the config path the call resolves, and "" when that path does not exist:
\* the explicit one when given, else the first existing candidate
\* (upload_oss) or the one candidate of the older script (oss_main)
ConfigInEffect ==
  IF uArgs.config # ""
  THEN (IF uArgs.config \in uWorld.fs THEN uArgs.config ELSE "")
  ELSE IF uPc = "upload_oss"
  THEN (IF ConfigCandidates[1] \in uWorld.fs THEN ConfigCandidates[1]
        ELSE IF ConfigCandidates[2] \in uWorld.fs THEN ConfigCandidates[2]
        ELSE IF ConfigCandidates[3] \in uWorld.fs THEN ConfigCandidates[3]
        ELSE "")
  ELSE (IF ConfigCandidates[2] \in uWorld.fs THEN ConfigCandidates[2] ELSE "")

\* C13: when the resolved config path does not exist the command has no -c
\* and the upload proceeds all the same; when it exists the command has -c
\* followed by exactly that path; a missing config file alone never makes
\* the upload fail.
C13_ConfigDegrades ==
  uReturned =>
    /\ (uWorld.source_exists /\ TargetAccepted) =>
         /\ uRes.built
         /\ uRes.spawned = ~uArgs.dry_run
         /\ (uArgs.dry_run \/ (uWorld.run.kind = "exit" /\ uWorld.run.code = 0)) =>
              (uRes.raised = "" /\ uRes.ret = 0)
    /\ uRes.built =>
         LET cmd == uRes.command
         IN  /\ ConfigInEffect = "" => \A i \in 5..Len(cmd) : cmd[i] # "-c"
             /\ ConfigInEffect # "" =>
                  /\ Len(cmd) >= 6
                  /\ cmd[5] = "-c"
                  /\ cmd[6] = ConfigInEffect
                  /\ \A i \in 6..Len(cmd) : cmd[i] # "-c"

\* an explicit config path that does not exist was dropped although a
\* default candidate exists, and the upload ran and succeeded without -c
C13_Witness ==
  /\ uPc = "upload_oss"
  /\ uArgs.config = ExplicitConfig
  /\ ExplicitConfig \notin uWorld.fs
  /\ ConfigCandidates[1] \in uWorld.fs
  /\ uRes.spawned
  /\ uRes.ret = 0
  /\ uRes.config = ""
  /\ Len(uRes.command) = 4 + (IF uArgs.force THEN 1 ELSE 0) + (IF uArgs.update THEN 1 ELSE 0)

====
